---- MODULE Spec2Model ----
(***************************************************************************)
(* PulsePoll: the vote ledger (controllers/voteController.js), the poll    *)
(* management operations it races with (controllers/pollController.js) and *)
(* the real-time channel (services/socketService.js): the authentication  *)
(* of the sockets, their rooms and the vote-update broadcast.              *)
(*                                                                         *)
(* Every request handler is an async function: it runs without             *)
(* interruption up to its next `await prisma...`, and the store executes   *)
(* each awaited query at one instant.  A handler is therefore a process    *)
(* whose steps are its store queries; the code between two queries (the    *)
(* early returns, the response) belongs to the step of the query before    *)
(* it.  Steps of different requests interleave freely.                     *)
(***************************************************************************)
EXTENDS Integers, FiniteSets, Sequences, Bags, TLC

\* ------------------------------------------------------------------ bounds
\* Number of requests that can be in flight at the same time.
MaxReqs == 2
\* Number of vote-update events a socket receives before it stops listening.
MaxEvents == 2

\* ---------------------------------------------------------------- universe
UserIds == {"u1", "u2"}
PollIds == {"p1", "p2"}
OptionIds == {"a", "b", "c", "d"}
SocketIds == {"s1", "s2"}

\* A body field that was not sent (undefined in req.body).
Missing == ""

\* The ids the store hands out to the options of a new poll (createPoll
\* creates the poll and its options in one transaction).
NewOptionIds(p) == IF p = "p1" THEN {"a", "b"} ELSE {"c", "d"}

VARIABLES
    users,        \* User rows: set of user ids
    polls,        \* Poll rows: [exists, isPublished, authorId, question] per
                  \* poll id
    pollOptions,  \* PollOption rows: set of [id, pollId]
    votes,        \* Vote rows: bag of [userId, pollId, pollOptionId] (rows
                  \* differ in their id, so equal triples are counted)
    reqs,         \* the requests in flight: a bag of request records
    resp,         \* the HTTP response sent by the last step (NoResp if none)
    rooms,        \* socket.io rooms: members of room poll-<id>
    inbox,        \* per socket: number of vote-update events and the last
                  \* one, and number of poll-update events
    won,          \* history: the (user, option) pairs of the Vote rows whose
                  \* addVote has returned 201
    sockets,      \* per socket: the state of the connection and its principal
    joined,       \* history: the (socket, poll) pairs whose latest join-poll,
                  \* leave-poll or disconnect is a join-poll
    event         \* the socket event processed last (member: the socket
                  \* was in the room, or in a room, when the event came), or
                  \* the error the broadcast logged last (member: the room
                  \* had members)

storeVars == <<users, polls, pollOptions, votes>>
socketVars == <<rooms, inbox>>
connVars == <<sockets, joined, event>>
vars == <<users, polls, pollOptions, votes, reqs, resp, rooms, inbox, won,
          sockets, joined, event>>

\* ------------------------------------------------------------------ values
NoTally == [pollId |-> Missing, totalVotes |-> 0,
            voteCount |-> [o \in OptionIds |-> 0],
            percentage |-> [o \in OptionIds |-> 0]]

NoPoll == [exists |-> FALSE, isPublished |-> FALSE, authorId |-> Missing,
           question |-> Missing]

\* The row of a poll that was deleted: the store hands out no id twice.
DeletedPoll == [NoPoll EXCEPT !.question = "(deleted)"]

\* A request: its handler (op), the query it awaits (pc), req.user.id
\* (userId), req.params.userId (params), the fields of req.body
\* (hasIsPublished: isPublished is not undefined) and the tally its
\* broadcast has read.
Idle == [op |-> "idle", pc |-> "idle", userId |-> Missing, pollId |-> Missing,
         pollOptionId |-> Missing, isPublished |-> FALSE, tally |-> NoTally,
         question |-> Missing, hasIsPublished |-> FALSE, params |-> Missing]

NoResp == [op |-> "none", userId |-> Missing, pollId |-> Missing,
           pollOptionId |-> Missing, status |-> 0, message |-> ""]

NoEvent == [n |-> 0, last |-> NoTally, pollUpdates |-> 0]

\* A socket that is not connected, and no socket event.
NoSocket == [state |-> "closed", decoded |-> Missing, userId |-> Missing]

NoSocketEvent == [socket |-> Missing, name |-> "none", pollId |-> Missing,
                  message |-> "", member |-> FALSE]

\* utils/response.js: both helpers send res.status(statusCode).json(...)
errorResponse(op, u, p, o, message, statusCode) ==
    [op |-> op, userId |-> u, pollId |-> p, pollOptionId |-> o,
     status |-> statusCode, message |-> message]

successResponse(op, u, p, o, message, statusCode) ==
    [op |-> op, userId |-> u, pollId |-> p, pollOptionId |-> o,
     status |-> statusCode, message |-> message]

\* ------------------------------------------------------- the store queries
\* prisma.poll.findUnique({ where: { id } })
PollFound(p) == p \in PollIds /\ polls[p].exists

\* prisma.pollOption.findFirst({ where: { id, pollId } })
OptionOfPollFound(o, p) == [id |-> o, pollId |-> p] \in pollOptions

\* prisma.pollOption.findUnique({ where: { id }, select: { pollId } })
OptionRows(o) == {x \in pollOptions : x.id = o}

\* Number of rows of the bag `rows` that are in the set S.
RECURSIVE CountRows(_, _)
CountRows(rows, S) ==
    IF S = {} THEN 0
    ELSE LET v == CHOOSE x \in S : TRUE
         IN CopiesIn(v, rows) + CountRows(rows, S \ {v})

\* prisma.vote.findUnique({ where: { userId_pollOptionId } })
VoteRows(u, o) ==
    {v \in BagToSet(votes) : v.userId = u /\ v.pollOptionId = o}

\* Mutant of UniqueViolation: the Vote model without its unique key.
NoUniqueKey(u, o) == FALSE

\* The Vote model's compound unique key userId_pollOptionId: the store
\* refuses a second row with the same (userId, pollOptionId).
UniqueViolation(u, o) == VoteRows(u, o) # {}

\* The foreign keys of a Vote row: its user, poll and option must exist.
ForeignKeysOk(u, p, o) ==
    u \in users /\ PollFound(p) /\ OptionRows(o) # {}

\* Mutant of VoteCreate: the write is lost.
VoteCreateLost(u, p, o) == votes

\* prisma.vote.create({ data: { userId, pollId, pollOptionId } })
VoteCreate(u, p, o) ==
    votes (+) SetToBag({[userId |-> u, pollId |-> p, pollOptionId |-> o]})

\* prisma.vote.update({ where: { userId_pollOptionId }, data: { pollOptionId } })
VoteUpdate(u, o, data) ==
    LET set(v) == IF v.userId = u /\ v.pollOptionId = o
                     THEN [v EXCEPT !.pollOptionId = data] ELSE v
        rows == {set(v) : v \in BagToSet(votes)}
    IN [w \in rows |-> CountRows(votes, {v \in BagToSet(votes) : set(v) = w})]

\* Mutant of VoteDelete: the delete is lost.
VoteDeleteLost(u, o) == votes

\* Mutant of VoteDelete: every Vote of the user is deleted.
VoteDeleteOfUser(u, o) ==
    LET rows == {v \in BagToSet(votes) : v.userId # u}
    IN [w \in rows |-> CopiesIn(w, votes)]

\* prisma.vote.delete({ where: { userId_pollOptionId } })
VoteDelete(u, o) ==
    LET rows == BagToSet(votes) \ VoteRows(u, o)
    IN [w \in rows |-> CopiesIn(w, votes)]

\* Mutant of percentage: the quotient is rounded up.
percentageCeil(count, total) ==
    IF total > 0 THEN (100 * count + total - 1) \div total ELSE 0

\* Math.round(x) of a non-negative x is floor(x + 1/2), so
\* Math.round((voteCount / totalVotes) * 100) is
\* floor((200 * voteCount + totalVotes) / (2 * totalVotes)).
percentage(voteCount, totalVotes) ==
    IF totalVotes > 0
       THEN (200 * voteCount + totalVotes) \div (2 * totalVotes)
       ELSE 0

\* poll._count.votes of the tally query
totalVotes(p) == CountRows(votes, {v \in BagToSet(votes) : v.pollId = p})

\* option._count.votes of the tally query, for the options of poll p
voteCount(o, p) ==
    IF OptionOfPollFound(o, p)
       THEN CountRows(votes, {v \in BagToSet(votes) : v.pollOptionId = o})
       ELSE 0

\* Mutant of computeTally: every option is given the count of its poll.
computeTallyOfPoll(p) ==
    [pollId |-> p,
     totalVotes |-> totalVotes(p),
     voteCount |-> [o \in OptionIds |->
        IF OptionOfPollFound(o, p) THEN totalVotes(p) ELSE 0],
     percentage |-> [o \in OptionIds |->
        IF OptionOfPollFound(o, p) THEN percentage(totalVotes(p), totalVotes(p))
        ELSE 0]]

\* The tally of broadcastVoteUpdate (lines 72-103) and of getPollStats
\* (lines 383-412): one query reads the poll with its _count.votes and its
\* options with their _count.votes, and the percentages are computed from
\* the counts.
computeTally(p) ==
    [pollId |-> p,
     totalVotes |-> totalVotes(p),
     voteCount |-> [o \in OptionIds |-> voteCount(o, p)],
     percentage |-> [o \in OptionIds |->
        percentage(voteCount(o, p), totalVotes(p))]]

\* ------------------------------------------------------------ the requests
\* A new request is accepted while fewer than MaxReqs are in flight.
CanAccept == BagCardinality(reqs) < MaxReqs

\* The handler of request q awaits its first query.
Accept(q) ==
    /\ reqs' = reqs (+) SetToBag({q})
    /\ resp' = NoResp

\* The handler of request q returns `response`.
Respond(q, response) ==
    /\ reqs' = reqs (-) SetToBag({q})
    /\ resp' = response

\* The handler of request q awaits its next query as `next`.
Goto(q, next) ==
    /\ reqs' = (reqs (-) SetToBag({q})) (+) SetToBag({next})
    /\ resp' = NoResp

Fail(q, message, statusCode) ==
    Respond(q, errorResponse(q.op, q.userId, q.pollId, q.pollOptionId,
                             message, statusCode))

\* Mutant of addVotePollCheck: the publish check is left out.
addVotePollCheckNoPublish(p, o) ==
    IF p = Missing \/ o = Missing THEN 400
    ELSE IF ~PollFound(p) THEN 404
    ELSE 0

\* Mutant of addVotePollCheck: the publish flag is tested before the poll is
\* known to exist.
addVotePollCheckPublishFirst(p, o) ==
    IF p = Missing \/ o = Missing THEN 400
    ELSE IF ~polls[p].isPublished THEN 403
    ELSE IF ~PollFound(p) THEN 404
    ELSE 0

\* addVote, lines 19-36: body validation, poll lookup, publish check.
\* 0 means the request goes on.
addVotePollCheck(p, o) ==
    IF p = Missing \/ o = Missing THEN 400
    ELSE IF ~PollFound(p) THEN 404
    ELSE IF ~polls[p].isPublished THEN 403
    ELSE 0

addVotePollMessage(status) ==
    IF status = 400 THEN "Poll ID and Poll Option ID are required"
    ELSE IF status = 404 THEN "Poll not found"
    ELSE "Cannot vote on unpublished poll"

\* addVote, lines 13-36: the request arrives and its first query runs.
addVoteFindPoll(u, p, o) ==
    /\ CanAccept
    /\ u \in users
    /\ LET status == addVotePollCheck(p, o) IN
         IF status # 0
            THEN resp' = errorResponse("addVote", u, p, o,
                                       addVotePollMessage(status), status)
                 /\ UNCHANGED reqs
            ELSE Accept([Idle EXCEPT !.op = "addVote", !.pc = "findOption",
                                      !.userId = u, !.pollId = p,
                                      !.pollOptionId = o])
    /\ UNCHANGED <<storeVars, socketVars, won>>
    /\ UNCHANGED connVars

\* Mutant of addVoteOptionCheck: the option is looked up by its id alone.
AnyPollOption(o, p) == OptionRows(o) # {}

\* addVote, lines 38-45: the option must be an option of this poll.
addVoteOptionCheck(o, p) == OptionOfPollFound(o, p)

addVoteFindOption(q) ==
    /\ q.op = "addVote" /\ q.pc = "findOption"
    /\ IF addVoteOptionCheck(q.pollOptionId, q.pollId)
          THEN Goto(q, [q EXCEPT !.pc = "findVote"])
          ELSE Fail(q, "Invalid poll option for this poll", 400)
    /\ UNCHANGED <<storeVars, socketVars, won>>
    /\ UNCHANGED connVars

\* Mutant of addVoteExistingVote: a user votes once in a poll (the user's
\* Vote for any option of the option's poll counts).
ExistingVoteInPoll(u, o) ==
    \E v \in BagToSet(votes), x \in OptionRows(o) :
        v.userId = u /\ v.pollId = x.pollId

\* Mutant of addVoteExistingVote: the existence check is left out.
NoExistingVoteCheck(u, o) == FALSE

\* addVote, lines 47-56: a user votes for an option once.
addVoteExistingVote(u, o) == VoteRows(u, o) # {}

addVoteFindVote(q) ==
    /\ q.op = "addVote" /\ q.pc = "findVote"
    /\ IF addVoteExistingVote(q.userId, q.pollOptionId)
          THEN Fail(q, "You have already voted for this option", 400)
          ELSE Goto(q, [q EXCEPT !.pc = "create"])
    /\ UNCHANGED <<storeVars, socketVars, won>>
    /\ UNCHANGED connVars

\* addVote, lines 58-66 and the catch of lines 72-75: the store throws on a
\* violated unique key or foreign key and the handler answers 500.
addVoteCreate(q) ==
    /\ q.op = "addVote" /\ q.pc = "create"
    /\ LET u == q.userId
           p == q.pollId
           o == q.pollOptionId IN
         IF UniqueViolation(u, o) \/ ~ForeignKeysOk(u, p, o)
            THEN Fail(q, "Internal server error", 500) /\ UNCHANGED votes
            ELSE /\ votes' = VoteCreate(u, p, o)
                 /\ Goto(q, [q EXCEPT !.pc = "broadcast"])
    /\ UNCHANGED <<users, polls, pollOptions, socketVars, won>>
    /\ UNCHANGED connVars

\* The success response of a vote mutation (addVote line 71, updateVote
\* line 123, removeVote line 164).
Succeed(q) ==
    /\ Respond(q, successResponse(q.op, q.userId, q.pollId, q.pollOptionId,
            IF q.op = "addVote" THEN "Vote added successfully"
            ELSE IF q.op = "updateVote" THEN "Vote updated successfully"
            ELSE "Vote removed successfully",
            IF q.op = "addVote" THEN 201 ELSE 200))
    /\ won' = IF q.op = "addVote" /\ VoteRows(q.userId, q.pollOptionId) # {}
                 THEN won \cup {<<q.userId, q.pollOptionId>>} ELSE won

\* broadcastVoteUpdate, lines 66-95: the tally query.  A poll that is gone
\* ends the broadcast without an event, and the handler then responds.
broadcastVoteUpdateQuery(q) ==
    /\ q.pc = "broadcast"
    /\ IF PollFound(q.pollId)
          THEN /\ Goto(q, [q EXCEPT !.pc = "emit",
                                          !.tally = computeTally(q.pollId)])
               /\ UNCHANGED won
          ELSE Succeed(q)
    /\ UNCHANGED <<storeVars, socketVars>>
    /\ UNCHANGED connVars

\* Mutant of broadcastCatch: the error of the broadcast reaches the catch
\* of the handler, which answers 500.
broadcastRethrow(q) ==
    /\ Fail(q, "Internal server error", 500)
    /\ UNCHANGED won

\* broadcastVoteUpdate, lines 115-117: an error in the broadcast is logged
\* and the handler goes on to its success response.
broadcastCatch(q) == Succeed(q)

\* broadcastVoteUpdate, lines 71-90 and 115-117: the tally query throws
\* and console.error logs the error.
broadcastVoteUpdateThrows(q) ==
    /\ q.pc = "broadcast"
    /\ broadcastCatch(q)
    /\ event' = [socket |-> Missing, name |-> "console.error",
                 pollId |-> q.pollId,
                 message |-> "Error broadcasting vote update:",
                 member |-> q.pollId \in PollIds /\ rooms[q.pollId] # {}]
    /\ UNCHANGED <<storeVars, socketVars, sockets, joined>>

\* Mutants of Emit: the event reaches no socket; the event reaches every
\* socket.
EmitToNone(p, tally) == inbox

EmitToAll(p, tally) ==
    [s \in SocketIds |-> [inbox[s] EXCEPT !.n = @ + 1, !.last = tally]]

\* Mutant of Emit: the event reaches the members of every room.
EmitToAnyRoom(p, tally) ==
    [s \in SocketIds |->
        IF \E r \in PollIds : s \in rooms[r]
           THEN [inbox[s] EXCEPT !.n = @ + 1, !.last = tally] ELSE inbox[s]]

\* io.to(`poll-${pollId}`).emit('vote-update', voteUpdate)
Emit(p, tally) ==
    [s \in SocketIds |->
        IF s \in rooms[p]
           THEN [inbox[s] EXCEPT !.n = @ + 1, !.last = tally] ELSE inbox[s]]

\* broadcastPollUpdate, lines 120-139:
\* io.to(`poll-${pollId}`).emit('poll-update', update).  No handler calls it.
broadcastPollUpdate(p) ==
    [s \in SocketIds |->
        IF s \in rooms[p]
           THEN [inbox[s] EXCEPT !.pollUpdates = @ + 1] ELSE inbox[s]]

\* broadcastVoteUpdate, lines 97-114, then the handler's success response.
\* (A socket takes MaxEvents events.)
broadcastVoteUpdateEmit(q) ==
    /\ q.pc = "emit"
    /\ \A s \in rooms[q.pollId] : inbox[s].n < MaxEvents
    /\ inbox' = Emit(q.pollId, q.tally)
    /\ Succeed(q)
    /\ UNCHANGED <<storeVars, rooms>>
    /\ UNCHANGED connVars

\* Mutant of EmitExcept: a failed delivery ends the emit.
EmitStopsAt(p, tally, lost) == inbox

\* io.to(`poll-${pollId}`).emit(...) when the delivery to the member `lost`
\* fails: the event is written to the connection of every member, and a
\* write that fails is the loss of that one.
EmitExcept(p, tally, lost) ==
    [s \in SocketIds |->
        IF s \in rooms[p] \ {lost}
           THEN [inbox[s] EXCEPT !.n = @ + 1, !.last = tally] ELSE inbox[s]]

\* broadcastVoteUpdate, lines 97-114, when the delivery to one member of the
\* room fails; the handler responds with success.
broadcastVoteUpdateEmitLost(q, lost) ==
    /\ q.pc = "emit"
    /\ lost \in rooms[q.pollId]
    /\ \A s \in rooms[q.pollId] : inbox[s].n < MaxEvents
    /\ inbox' = EmitExcept(q.pollId, q.tally, lost)
    /\ Succeed(q)
    /\ UNCHANGED <<storeVars, rooms>>
    /\ UNCHANGED connVars

\* The handlers of the vote mutations.
VoteOps == {"addVote", "updateVote", "removeVote"}

\* The store fails (the connection is lost, the query times out) on the
\* query that request q awaits: prisma throws and the catch of the handler
\* (addVote 72-75, updateVote 124-127, removeVote 165-168) answers 500.
storeFails(q) ==
    /\ q.op \in VoteOps
    /\ q.pc \in {"findOption", "findVote", "create", "update", "delete"}
    /\ Fail(q, "Internal server error", 500)
    /\ UNCHANGED <<storeVars, socketVars, won>>
    /\ UNCHANGED connVars

\* The store fails on the first query of a vote mutation (the body of
\* addVote and updateVote has passed its validation).
storeFailsFirst(op, u, p, o) ==
    /\ op \in VoteOps
    /\ u \in users
    /\ o # Missing
    /\ op # "removeVote" => p # Missing
    /\ resp' = errorResponse(op, u, IF op = "removeVote" THEN Missing ELSE p,
                             o, "Internal server error", 500)
    /\ UNCHANGED <<storeVars, reqs, socketVars, won>>
    /\ UNCHANGED connVars

\* Mutant of updateVoteFindCheck: the user's vote is looked up by the poll
\* of the body instead of its option.
updateVoteFindByPoll(u, p, o) ==
    IF p = Missing \/ o = Missing THEN 400
    ELSE IF {v \in BagToSet(votes) : v.userId = u /\ v.pollId = p} = {} THEN 404
    ELSE 0

\* updateVote, lines 88-99: body validation and the lookup of the user's
\* vote for the option named in the body.  0 means the request goes on.
updateVoteFindCheck(u, p, o) ==
    IF p = Missing \/ o = Missing THEN 400
    ELSE IF VoteRows(u, o) = {} THEN 404
    ELSE 0

updateVoteFindVote(u, p, o) ==
    /\ CanAccept
    /\ u \in users
    /\ LET status == updateVoteFindCheck(u, p, o) IN
         IF status # 0
            THEN resp' = errorResponse("updateVote", u, p, o,
                            IF status = 400
                               THEN "Poll ID and Poll Option ID are required"
                               ELSE "No vote found to update", status)
                 /\ UNCHANGED reqs
            ELSE Accept([Idle EXCEPT !.op = "updateVote", !.pc = "findOption",
                                      !.userId = u, !.pollId = p,
                                      !.pollOptionId = o])
    /\ UNCHANGED <<storeVars, socketVars, won>>
    /\ UNCHANGED connVars

\* updateVote, lines 101-108
updateVoteOptionCheck(o, p) == OptionOfPollFound(o, p)

updateVoteFindOption(q) ==
    /\ q.op = "updateVote" /\ q.pc = "findOption"
    /\ IF updateVoteOptionCheck(q.pollOptionId, q.pollId)
          THEN Goto(q, [q EXCEPT !.pc = "update"])
          ELSE Fail(q, "Invalid poll option for this poll", 400)
    /\ UNCHANGED <<storeVars, socketVars, won>>
    /\ UNCHANGED connVars

\* Mutant of updateVoteData: the row is moved to the other option of p1.
updateVoteDataOther(o) == IF o = "a" THEN "b" ELSE "a"

\* updateVote, line 113: data: { pollOptionId } is the option of the body,
\* the one the row was looked up by.
updateVoteData(o) == o

\* updateVote, lines 110-119 and the catch of lines 124-127: the store
\* throws when the row to update is gone.
updateVoteUpdate(q) ==
    /\ q.op = "updateVote" /\ q.pc = "update"
    /\ LET u == q.userId
           o == q.pollOptionId IN
         IF VoteRows(u, o) = {}
            THEN Fail(q, "Internal server error", 500) /\ UNCHANGED votes
            ELSE /\ votes' = VoteUpdate(u, o, updateVoteData(o))
                 /\ Goto(q, [q EXCEPT !.pc = "broadcast"])
    /\ UNCHANGED <<users, polls, pollOptions, socketVars, won>>
    /\ UNCHANGED connVars

\* removeVote, lines 137-147
removeVoteFindVote(u, o) ==
    /\ CanAccept
    /\ u \in users
    /\ IF VoteRows(u, o) = {}
          THEN resp' = errorResponse("removeVote", u, Missing, o,
                                     "No vote found to remove", 404)
               /\ UNCHANGED reqs
          ELSE Accept([Idle EXCEPT !.op = "removeVote", !.pc = "findOption",
                                    !.userId = u, !.pollOptionId = o])
    /\ UNCHANGED <<storeVars, socketVars, won>>
    /\ UNCHANGED connVars

\* removeVote, lines 149-153: poll.pollId of the option, kept for the
\* broadcast (Missing when the option is gone).
removeVoteFindOption(q) ==
    /\ q.op = "removeVote" /\ q.pc = "findOption"
    /\ LET found == OptionRows(q.pollOptionId) IN
         Goto(q, [q EXCEPT !.pc = "delete",
                    !.pollId = IF found = {} THEN Missing
                               ELSE (CHOOSE x \in found : TRUE).pollId])
    /\ UNCHANGED <<storeVars, socketVars, won>>
    /\ UNCHANGED connVars

\* removeVote, lines 155-164 and the catch of lines 165-168
removeVoteDelete(q) ==
    /\ q.op = "removeVote" /\ q.pc = "delete"
    /\ LET u == q.userId
           o == q.pollOptionId IN
         IF VoteRows(u, o) = {}
            THEN Fail(q, "Internal server error", 500) /\ UNCHANGED <<votes, won>>
            ELSE /\ votes' = VoteDelete(u, o)
                 /\ IF q.pollId # Missing
                       THEN /\ Goto(q, [q EXCEPT !.pc = "broadcast"])
                            /\ won' = won \ {<<u, o>>}
                       ELSE /\ Respond(q, successResponse("removeVote", u,
                                   Missing, o, "Vote removed successfully", 200))
                            /\ won' = won \ {<<u, o>>}
    /\ UNCHANGED <<users, polls, pollOptions, socketVars>>
    /\ UNCHANGED connVars

\* togglePollPublish, lines 327-341: 0 means the request goes on.
togglePollPublishCheck(u, p) ==
    IF ~PollFound(p) THEN 404
    ELSE IF polls[p].authorId # u THEN 403
    ELSE 0

togglePollPublishFind(u, p, isPublished) ==
    /\ CanAccept
    /\ u \in users
    /\ LET status == togglePollPublishCheck(u, p) IN
         IF status # 0
            THEN resp' = errorResponse("togglePollPublish", u, p, Missing,
                            IF status = 404 THEN "Poll not found"
                            ELSE "You can only modify your own polls", status)
                 /\ UNCHANGED reqs
            ELSE Accept([Idle EXCEPT !.op = "togglePollPublish",
                                      !.pc = "update", !.userId = u,
                                      !.pollId = p, !.isPublished = isPublished])
    /\ UNCHANGED <<storeVars, socketVars, won>>
    /\ UNCHANGED connVars

\* togglePollPublish, lines 343-372 and the catch of lines 373-376
togglePollPublishUpdate(q) ==
    /\ q.op = "togglePollPublish" /\ q.pc = "update"
    /\ LET p == q.pollId IN
         IF ~PollFound(p)
            THEN Fail(q, "Internal server error", 500) /\ UNCHANGED polls
            ELSE /\ polls' = [polls EXCEPT ![p].isPublished = q.isPublished]
                 /\ Respond(q, successResponse("togglePollPublish",
                        q.userId, p, Missing,
                        IF q.isPublished THEN "Poll published successfully"
                        ELSE "Poll unpublished successfully", 200))
    /\ UNCHANGED <<users, pollOptions, votes, socketVars, won>>
    /\ UNCHANGED connVars

\* String.prototype.trim on the questions of the request bodies.
trim(question) ==
    IF question = " q0 " THEN "q0"
    ELSE IF question = " q1 " THEN "q1"
    ELSE question

\* req.body.question of createPoll.
NewQuestion == " q0 "

\* createPoll, lines 6-52: the poll and its options are created in one
\* transaction; p is the id the store picks for the new poll.
createPoll(u, p, isPublished, valid) ==
    /\ u \in users
    /\ IF ~valid
          THEN /\ resp' = errorResponse("createPoll", u, Missing, Missing,
                        "Question and at least 2 options are required", 400)
               /\ UNCHANGED <<polls, pollOptions>>
          ELSE /\ polls[p] = NoPoll
               /\ polls' = [polls EXCEPT ![p] = [exists |-> TRUE,
                                isPublished |-> isPublished, authorId |-> u,
                                question |-> trim(NewQuestion)]]
               /\ pollOptions' = pollOptions \cup
                        {[id |-> o, pollId |-> p] : o \in NewOptionIds(p)}
               /\ resp' = successResponse("createPoll", u, p, Missing,
                                          "Poll created successfully", 201)
    /\ UNCHANGED <<users, votes, reqs, socketVars, won>>
    /\ UNCHANGED connVars

\* Mutant of updatePollCheck: every user may update the poll.
updatePollCheckNoAuthor(u, p) == IF ~PollFound(p) THEN 404 ELSE 0

\* updatePoll, lines 184-194: 0 means the request goes on.
updatePollCheck(u, p) ==
    IF ~PollFound(p) THEN 404
    ELSE IF polls[p].authorId # u THEN 403
    ELSE 0

\* updatePoll, lines 178-194: the request arrives and its lookup runs.
updatePollFind(u, p, question, hasIsPublished, isPublished) ==
    /\ CanAccept
    /\ u \in users
    /\ LET status == updatePollCheck(u, p) IN
         IF status # 0
            THEN resp' = errorResponse("updatePoll", u, p, Missing,
                            IF status = 404 THEN "Poll not found"
                            ELSE "You can only update your own polls", status)
                 /\ UNCHANGED reqs
            ELSE Accept([Idle EXCEPT !.op = "updatePoll", !.pc = "update",
                                      !.userId = u, !.pollId = p,
                                      !.question = question,
                                      !.hasIsPublished = hasIsPublished,
                                      !.isPublished = isPublished])
    /\ UNCHANGED <<storeVars, socketVars, won>>
    /\ UNCHANGED connVars

\* updatePoll, lines 196-231: the question is set when the body has one,
\* the flag when the body has one; the store throws when the poll is gone.
\* No event is sent.
updatePollUpdate(q) ==
    /\ q.op = "updatePoll" /\ q.pc = "update"
    /\ LET p == q.pollId IN
         IF ~PollFound(p)
            THEN Fail(q, "Internal server error", 500) /\ UNCHANGED polls
            ELSE /\ polls' = [polls EXCEPT
                        ![p].question = IF q.question # Missing
                                           THEN trim(q.question) ELSE @,
                        ![p].isPublished = IF q.hasIsPublished
                                              THEN q.isPublished ELSE @]
                 /\ Respond(q, successResponse("updatePoll", q.userId, p,
                                   Missing, "Poll updated successfully", 200))
    /\ UNCHANGED <<users, pollOptions, votes, socketVars, won>>
    /\ UNCHANGED connVars

\* The Vote rows that are not in the set S.
VotesWithout(S) ==
    LET rows == BagToSet(votes) \ S
    IN [w \in rows |-> CopiesIn(w, votes)]

\* The polls of the set P are deleted; the deletion cascades to their
\* options and to the votes of the set V.
DeleteCascade(P, V) ==
    /\ polls' = [p \in PollIds |-> IF p \in P THEN DeletedPoll ELSE polls[p]]
    /\ pollOptions' = {x \in pollOptions : x.pollId \notin P}
    /\ votes' = VotesWithout(V)

\* deletePoll, lines 239-249: 0 means the request goes on.
deletePollCheck(u, p) ==
    IF ~PollFound(p) THEN 404
    ELSE IF polls[p].authorId # u THEN 403
    ELSE 0

\* deletePoll, lines 234-249
deletePollFind(u, p) ==
    /\ CanAccept
    /\ u \in users
    /\ LET status == deletePollCheck(u, p) IN
         IF status # 0
            THEN resp' = errorResponse("deletePoll", u, p, Missing,
                            IF status = 404 THEN "Poll not found"
                            ELSE "You can only delete your own polls", status)
                 /\ UNCHANGED reqs
            ELSE Accept([Idle EXCEPT !.op = "deletePoll", !.pc = "delete",
                                      !.userId = u, !.pollId = p])
    /\ UNCHANGED <<storeVars, socketVars, won>>
    /\ UNCHANGED connVars

\* deletePoll, lines 251-259: the poll is deleted with its options and its
\* votes; the store throws when the poll is gone.
deletePollDelete(q) ==
    /\ q.op = "deletePoll" /\ q.pc = "delete"
    /\ LET p == q.pollId IN
         IF ~PollFound(p)
            THEN /\ Fail(q, "Internal server error", 500)
                 /\ UNCHANGED <<polls, pollOptions, votes, won>>
            ELSE /\ DeleteCascade({p}, {v \in BagToSet(votes) : v.pollId = p})
                 /\ won' = {w \in won : ~OptionOfPollFound(w[2], p)}
                 /\ Respond(q, successResponse("deletePoll", q.userId, p,
                                   Missing, "Poll deleted successfully", 200))
    /\ UNCHANGED <<users, socketVars>>
    /\ UNCHANGED connVars

\* deleteUser, lines 262-272: the request of user u names the account of
\* req.params.userId; the handler looks the account up, and compares it
\* with nothing.
deleteUserFind(u, userId) ==
    /\ CanAccept
    /\ u \in users
    /\ IF userId \notin users
          THEN resp' = errorResponse("deleteUser", u, Missing, Missing,
                                     "User not found", 404)
               /\ UNCHANGED reqs
          ELSE Accept([Idle EXCEPT !.op = "deleteUser", !.pc = "delete",
                                    !.userId = u, !.params = userId])
    /\ UNCHANGED <<storeVars, socketVars, won>>
    /\ UNCHANGED connVars

\* deleteUser, lines 274-284: the account is deleted with the polls it owns
\* and the votes it cast; the store throws when the account is gone.  No
\* event is sent.
deleteUserDelete(q) ==
    /\ q.op = "deleteUser" /\ q.pc = "delete"
    /\ LET userId == q.params
           owned == {p \in PollIds : PollFound(p) /\ polls[p].authorId = userId}
           gone == {v \in BagToSet(votes) :
                       v.userId = userId \/ v.pollId \in owned} IN
         IF userId \notin users
            THEN /\ Fail(q, "Internal server error", 500)
                 /\ UNCHANGED <<users, polls, pollOptions, votes, won>>
            ELSE /\ users' = users \ {userId}
                 /\ DeleteCascade(owned, gone)
                 /\ won' = {w \in won :
                              \E v \in BagToSet(votes) \ gone :
                                 v.userId = w[1] /\ v.pollOptionId = w[2]}
                 /\ Respond(q, successResponse("deleteUser", q.userId, Missing,
                                   Missing, "User account deleted successfully",
                                   200))
    /\ UNCHANGED socketVars
    /\ UNCHANGED connVars

\* getPollStats, lines 379-428: one query, then the response with the tally.
getPollStats(p) ==
    /\ resp' = IF PollFound(p)
                  THEN successResponse("getPollStats", Missing, p, Missing,
                           "Poll statistics retrieved successfully", 200)
                       @@ [data |-> computeTally(p)]
                  ELSE errorResponse("getPollStats", Missing, p, Missing,
                                     "Poll not found", 404)
    /\ UNCHANGED <<storeVars, reqs, socketVars, won, connVars>>

\* -------------------------------------------------------------- the sockets
\* The handshake carries no token (Missing), a token that verifyToken
\* refuses, or a token signed for a user id; the user "u0" is not in the
\* store.
TokenUserIds == UserIds \cup {"u0"}
Tokens == {Missing, "expired"} \cup TokenUserIds

\* jwtService.verifyToken: throws unless the token is valid.
verifyToken(token) == token \in TokenUserIds

SocketEvent(s, name, p, message) ==
    [socket |-> s, name |-> name, pollId |-> p, message |-> message,
     member |-> IF p \in PollIds THEN s \in rooms[p]
                ELSE \E r \in PollIds : s \in rooms[r]]

\* next(new Error(...)): the connection is refused with the error.
Refuse(s, message) ==
    /\ sockets' = [sockets EXCEPT ![s] = NoSocket]
    /\ event' = SocketEvent(s, "connect_error", Missing, message)

\* Mutant of socketAuthToken: every handshake passes.
socketAuthAnyToken(token) == ""

\* io.use, lines 20-26: "" means the handshake goes on to the user lookup.
socketAuthToken(token) ==
    IF token = Missing THEN "Authentication error: No token provided"
    ELSE IF ~verifyToken(token) THEN "Authentication error: Invalid token"
    ELSE ""

\* io.use, lines 18-27: a handshake arrives and the middleware runs up to
\* its user lookup.
socketAuth(s, token) ==
    /\ sockets[s].state = "closed"
    /\ IF socketAuthToken(token) # ""
          THEN Refuse(s, socketAuthToken(token))
          ELSE /\ sockets' = [sockets EXCEPT ![s] =
                        [state |-> "auth", decoded |-> token, userId |-> Missing]]
               /\ event' = SocketEvent(s, "handshake", Missing, "")
    /\ UNCHANGED <<storeVars, reqs, resp, socketVars, won, joined>>

\* io.use, lines 27-38, and io.on('connection'): the user lookup returns;
\* the socket gets its principal and its handlers, or is refused.
socketAuthFindUser(s) ==
    /\ sockets[s].state = "auth"
    /\ IF sockets[s].decoded \in users
          THEN /\ sockets' = [sockets EXCEPT ![s] =
                        [state |-> "open", decoded |-> sockets[s].decoded,
                         userId |-> sockets[s].decoded]]
               /\ event' = SocketEvent(s, "connection", Missing, "")
          ELSE Refuse(s, "Authentication error: User not found")
    /\ UNCHANGED <<storeVars, reqs, resp, socketVars, won, joined>>

\* Mutant of join: a second join-poll takes the socket out of the room.
joinToggle(s, p) ==
    [rooms EXCEPT ![p] = IF s \in @ THEN @ \ {s} ELSE @ \cup {s}]

\* socket.join(`poll-${pollId}`)
join(s, p) == [rooms EXCEPT ![p] = @ \cup {s}]

\* socket.leave(`poll-${pollId}`)
leave(s, p) == [rooms EXCEPT ![p] = @ \ {s}]

\* Mutant of leaveAll: a disconnected socket stays in its rooms.
leaveNone(s) == rooms

\* socket.io takes a disconnected socket out of all its rooms.
leaveAll(s) == [p \in PollIds |-> rooms[p] \ {s}]

\* socket.on('join-poll'), lines 47-50
joinPoll(s, p) ==
    /\ sockets[s].state = "open"
    /\ rooms' = join(s, p)
    /\ joined' = joined \cup {<<s, p>>}
    /\ event' = SocketEvent(s, "join-poll", p, "")
    /\ UNCHANGED <<storeVars, reqs, resp, inbox, won, sockets>>

\* socket.on('leave-poll'), lines 52-55
leavePoll(s, p) ==
    /\ sockets[s].state = "open"
    /\ rooms' = leave(s, p)
    /\ joined' = joined \ {<<s, p>>}
    /\ event' = SocketEvent(s, "leave-poll", p, "")
    /\ UNCHANGED <<storeVars, reqs, resp, inbox, won, sockets>>

\* socket.on('disconnect'), lines 57-59: the connection ends, whatever the
\* cause; the next connection of the client starts with an empty inbox.
disconnect(s) ==
    /\ sockets[s].state = "open"
    /\ sockets' = [sockets EXCEPT ![s] = NoSocket]
    /\ rooms' = leaveAll(s)
    /\ joined' = {x \in joined : x[1] # s}
    /\ inbox' = [inbox EXCEPT ![s] = NoEvent]
    /\ event' = SocketEvent(s, "disconnect", Missing, "")
    /\ UNCHANGED <<storeVars, reqs, resp, won>>

\* ------------------------------------------------------- the specification
\* The store after the users have registered: no poll, no vote, no request
\* in flight, no socket in a room.
Init ==
    /\ users = UserIds
    /\ polls = [p \in PollIds |-> NoPoll]
    /\ pollOptions = {}
    /\ votes = EmptyBag
    /\ reqs = EmptyBag
    /\ resp = NoResp
    /\ rooms = [p \in PollIds |-> {}]
    /\ inbox = [s \in SocketIds |-> NoEvent]
    /\ won = {}
    /\ sockets = [s \in SocketIds |-> NoSocket]
    /\ joined = {}
    /\ event = NoSocketEvent

\* The inputs of the requests.
Authors == {"u1"}
Voters == {"u1"}
VoteOptionIds == {"a", "b"}
\* req.body of addVote and updateVote: { pollId, pollOptionId }, either of
\* which may be missing.
VoteBodies ==
    (PollIds \X VoteOptionIds) \cup {<<Missing, "a">>, <<"p1", Missing>>}

Next ==
    \/ \E u \in Authors, p \in PollIds, b \in BOOLEAN, valid \in BOOLEAN :
            createPoll(u, p, b, valid)
    \/ \E u \in UserIds, p \in PollIds, b \in BOOLEAN :
            togglePollPublishFind(u, p, b)
    \/ \E q \in BagToSet(reqs) : togglePollPublishUpdate(q)
    \/ \E u \in Voters, b \in VoteBodies : addVoteFindPoll(u, b[1], b[2])
    \/ \E q \in BagToSet(reqs) : addVoteFindOption(q)
    \/ \E q \in BagToSet(reqs) : addVoteFindVote(q)
    \/ \E q \in BagToSet(reqs) : addVoteCreate(q)
    \/ \E u \in Voters, b \in VoteBodies : updateVoteFindVote(u, b[1], b[2])
    \/ \E q \in BagToSet(reqs) : updateVoteFindOption(q)
    \/ \E q \in BagToSet(reqs) : updateVoteUpdate(q)
    \/ \E u \in Voters, o \in VoteOptionIds : removeVoteFindVote(u, o)
    \/ \E q \in BagToSet(reqs) : removeVoteFindOption(q)
    \/ \E q \in BagToSet(reqs) : removeVoteDelete(q)
    \/ \E q \in BagToSet(reqs) : broadcastVoteUpdateQuery(q)
    \/ \E q \in BagToSet(reqs) : broadcastVoteUpdateEmit(q)

Spec == Init /\ [][Next]_vars

\* Only casts (and the poll operations they race with): the requests of
\* the concurrent-cast scenario.
NextCast ==
    \/ \E u \in Authors, p \in PollIds, b \in BOOLEAN, valid \in BOOLEAN :
            createPoll(u, p, b, valid)
    \/ \E u \in UserIds, p \in PollIds, b \in BOOLEAN :
            togglePollPublishFind(u, p, b)
    \/ \E q \in BagToSet(reqs) : togglePollPublishUpdate(q)
    \/ \E u \in UserIds, b \in VoteBodies : addVoteFindPoll(u, b[1], b[2])
    \/ \E q \in BagToSet(reqs) : addVoteFindOption(q)
    \/ \E q \in BagToSet(reqs) : addVoteFindVote(q)
    \/ \E q \in BagToSet(reqs) : addVoteCreate(q)
    \/ \E q \in BagToSet(reqs) : broadcastVoteUpdateQuery(q)
    \/ \E q \in BagToSet(reqs) : broadcastVoteUpdateEmit(q)

SpecCast == Init /\ [][NextCast]_vars

\* The real-time channel: the sockets, and the casts of one voter on the
\* options of a published poll whose vote-update events they receive.
RoomVoters == {"u1"}
RoomPolls == {"p1"}
RoomBodies == {<<"p1", "a">>, <<"p1", "b">>}
RoomTokens == {Missing, "expired", "u0", "u1"}
\* The socket s1 sends every handshake and joins and leaves every room; the
\* socket s2 is a listener of the poll that is voted on.
RoomHandshakes == ({"s1"} \X RoomTokens) \cup {<<"s2", "u1">>}
RoomJoins == ({"s1"} \X PollIds) \cup {<<"s2", "p1">>}

NextRoom ==
    \/ \E u \in Authors, p \in RoomPolls : createPoll(u, p, TRUE, TRUE)
    \/ \E h \in RoomHandshakes : socketAuth(h[1], h[2])
    \/ \E s \in SocketIds : socketAuthFindUser(s)
    \/ \E j \in RoomJoins : joinPoll(j[1], j[2])
    \/ \E j \in RoomJoins : leavePoll(j[1], j[2])
    \/ \E s \in SocketIds : disconnect(s)
    \/ \E u \in RoomVoters, b \in RoomBodies : addVoteFindPoll(u, b[1], b[2])
    \/ \E q \in BagToSet(reqs) : addVoteFindOption(q)
    \/ \E q \in BagToSet(reqs) : addVoteFindVote(q)
    \/ \E q \in BagToSet(reqs) : addVoteCreate(q)
    \/ \E q \in BagToSet(reqs) : broadcastVoteUpdateQuery(q)
    \/ \E q \in BagToSet(reqs) : broadcastVoteUpdateEmit(q)

SpecRoom == Init /\ [][NextRoom]_vars

\* The notification of the listeners: the three vote mutations of one voter
\* on one option, with two sockets that connect and join the poll's room.
NotifyBodies == {<<"p1", "a">>}

NextNotify ==
    \/ \E u \in Authors, p \in RoomPolls : createPoll(u, p, TRUE, TRUE)
    \/ \E s \in SocketIds : socketAuth(s, "u1")
    \/ \E s \in SocketIds : socketAuthFindUser(s)
    \/ \E s \in SocketIds : joinPoll(s, "p1")
    \/ \E u \in RoomVoters, b \in NotifyBodies : addVoteFindPoll(u, b[1], b[2])
    \/ \E q \in BagToSet(reqs) : addVoteFindOption(q)
    \/ \E q \in BagToSet(reqs) : addVoteFindVote(q)
    \/ \E q \in BagToSet(reqs) : addVoteCreate(q)
    \/ \E u \in RoomVoters, b \in NotifyBodies : updateVoteFindVote(u, b[1], b[2])
    \/ \E q \in BagToSet(reqs) : updateVoteFindOption(q)
    \/ \E q \in BagToSet(reqs) : updateVoteUpdate(q)
    \/ \E u \in RoomVoters, b \in NotifyBodies : removeVoteFindVote(u, b[2])
    \/ \E q \in BagToSet(reqs) : removeVoteFindOption(q)
    \/ \E q \in BagToSet(reqs) : removeVoteDelete(q)
    \/ \E q \in BagToSet(reqs) : broadcastVoteUpdateQuery(q)
    \/ \E q \in BagToSet(reqs) : broadcastVoteUpdateEmit(q)
    \/ \E p \in PollIds : getPollStats(p)

SpecNotify == Init /\ [][NextNotify]_vars

\* Poll management and account deletion: the author u1 and the user u2 both
\* try to publish, edit and delete the poll p1, u2 votes on it, either
\* account can be deleted, and the socket s1 listens in the poll's room.
ManageVoters == {"u2"}
\* req.body of updatePoll: { question, isPublished }, either of which may
\* be missing.
ManageBodies ==
    {<<" q1 ", FALSE, FALSE>>, <<Missing, TRUE, FALSE>>, <<" q1 ", TRUE, TRUE>>}
\* The caller and req.params.userId of deleteUser.
ManageDeletions == UserIds \X UserIds

NextManage ==
    \/ \E u \in Authors, p \in RoomPolls : createPoll(u, p, TRUE, TRUE)
    \/ socketAuth("s1", "u1")
    \/ socketAuthFindUser("s1")
    \/ joinPoll("s1", "p1")
    \/ \E u \in UserIds, p \in RoomPolls, b \in BOOLEAN :
            togglePollPublishFind(u, p, b)
    \/ \E q \in BagToSet(reqs) : togglePollPublishUpdate(q)
    \/ \E u \in UserIds, p \in RoomPolls, b \in ManageBodies :
            updatePollFind(u, p, b[1], b[2], b[3])
    \/ \E q \in BagToSet(reqs) : updatePollUpdate(q)
    \/ \E u \in UserIds, p \in RoomPolls : deletePollFind(u, p)
    \/ \E q \in BagToSet(reqs) : deletePollDelete(q)
    \/ \E d \in ManageDeletions : deleteUserFind(d[1], d[2])
    \/ \E q \in BagToSet(reqs) : deleteUserDelete(q)
    \/ \E u \in ManageVoters, b \in NotifyBodies : addVoteFindPoll(u, b[1], b[2])
    \/ \E q \in BagToSet(reqs) : addVoteFindOption(q)
    \/ \E q \in BagToSet(reqs) : addVoteFindVote(q)
    \/ \E q \in BagToSet(reqs) : addVoteCreate(q)
    \/ \E q \in BagToSet(reqs) : broadcastVoteUpdateQuery(q)
    \/ \E q \in BagToSet(reqs) : broadcastVoteUpdateEmit(q)

SpecManage == Init /\ [][NextManage]_vars

\* The broadcast and its failures: the three vote mutations of one voter on
\* one option, two sockets in the room of the poll, the author deleting the
\* poll, the tally query throwing and the delivery to one socket failing.
NextDeliver ==
    \/ \E u \in Authors, p \in RoomPolls : createPoll(u, p, TRUE, TRUE)
    \/ \E u \in Authors, p \in RoomPolls : deletePollFind(u, p)
    \/ \E q \in BagToSet(reqs) : deletePollDelete(q)
    \/ \E s \in SocketIds : socketAuth(s, "u1")
    \/ \E s \in SocketIds : socketAuthFindUser(s)
    \/ \E s \in SocketIds : joinPoll(s, "p1")
    \/ \E u \in RoomVoters, b \in NotifyBodies : addVoteFindPoll(u, b[1], b[2])
    \/ \E q \in BagToSet(reqs) : addVoteFindOption(q)
    \/ \E q \in BagToSet(reqs) : addVoteFindVote(q)
    \/ \E q \in BagToSet(reqs) : addVoteCreate(q)
    \/ \E u \in RoomVoters, b \in NotifyBodies : updateVoteFindVote(u, b[1], b[2])
    \/ \E q \in BagToSet(reqs) : updateVoteFindOption(q)
    \/ \E q \in BagToSet(reqs) : updateVoteUpdate(q)
    \/ \E u \in RoomVoters, b \in NotifyBodies : removeVoteFindVote(u, b[2])
    \/ \E q \in BagToSet(reqs) : removeVoteFindOption(q)
    \/ \E q \in BagToSet(reqs) : removeVoteDelete(q)
    \/ \E q \in BagToSet(reqs) : broadcastVoteUpdateQuery(q)
    \/ \E q \in BagToSet(reqs) : broadcastVoteUpdateThrows(q)
    \/ \E q \in BagToSet(reqs) : broadcastVoteUpdateEmit(q)
    \/ \E q \in BagToSet(reqs), s \in SocketIds : broadcastVoteUpdateEmitLost(q, s)

SpecDeliver == Init /\ [][NextDeliver]_vars

\* The store failing under the vote mutations: the three vote mutations of
\* one voter on the options of one poll, with a socket in the poll's room.
FailBodies == {<<"p1", "a">>, <<"p1", Missing>>, <<"p2", "a">>}

NextFail ==
    \/ \E u \in Authors, p \in RoomPolls, b \in BOOLEAN : createPoll(u, p, b, TRUE)
    \/ socketAuth("s1", "u1")
    \/ socketAuthFindUser("s1")
    \/ joinPoll("s1", "p1")
    \/ \E u \in RoomVoters, b \in FailBodies : addVoteFindPoll(u, b[1], b[2])
    \/ \E q \in BagToSet(reqs) : addVoteFindOption(q)
    \/ \E q \in BagToSet(reqs) : addVoteFindVote(q)
    \/ \E q \in BagToSet(reqs) : addVoteCreate(q)
    \/ \E u \in RoomVoters, b \in FailBodies : updateVoteFindVote(u, b[1], b[2])
    \/ \E q \in BagToSet(reqs) : updateVoteFindOption(q)
    \/ \E q \in BagToSet(reqs) : updateVoteUpdate(q)
    \/ \E u \in RoomVoters, o \in VoteOptionIds : removeVoteFindVote(u, o)
    \/ \E q \in BagToSet(reqs) : removeVoteFindOption(q)
    \/ \E q \in BagToSet(reqs) : removeVoteDelete(q)
    \/ \E q \in BagToSet(reqs) : broadcastVoteUpdateQuery(q)
    \/ \E q \in BagToSet(reqs) : broadcastVoteUpdateThrows(q)
    \/ \E q \in BagToSet(reqs) : broadcastVoteUpdateEmit(q)
    \/ \E q \in BagToSet(reqs) : storeFails(q)
    \/ \E op \in VoteOps, u \in RoomVoters, b \in FailBodies :
            storeFailsFirst(op, u, b[1], b[2])

SpecFail == Init /\ [][NextFail]_vars

\* The tally as a function of the store: every poll of two to four options
\* with every set of votes of the users for its options.
InitTally ==
    /\ users = UserIds
    /\ polls = [p \in PollIds |->
                  IF p = "p1" THEN [exists |-> TRUE, isPublished |-> TRUE,
                                    authorId |-> "u1", question |-> "q0"]
                  ELSE NoPoll]
    /\ \E O \in SUBSET OptionIds :
          /\ Cardinality(O) >= 2
          /\ pollOptions = {[id |-> o, pollId |-> "p1"] : o \in O}
          /\ \E V \in SUBSET (UserIds \X O) :
                votes = SetToBag({[userId |-> x[1], pollId |-> "p1",
                                   pollOptionId |-> x[2]] : x \in V})
    /\ reqs = EmptyBag
    /\ resp = NoResp
    /\ rooms = [p \in PollIds |-> {}]
    /\ inbox = [s \in SocketIds |-> NoEvent]
    /\ won = {}
    /\ sockets = [s \in SocketIds |-> NoSocket]
    /\ joined = {}
    /\ event = NoSocketEvent

NextTally == \E p \in PollIds : getPollStats(p)

SpecTally == InitTally /\ [][NextTally]_vars

\* ------------------------------------------------------------- observations
\* Request q takes a step (it leaves the position it is at).
Stepped(q) == CopiesIn(q, reqs') < CopiesIn(q, reqs)

\* A request `op` of user u with body (p, o) arrives and its first query
\* runs: it is either taken on or answered at once.
TakenOn(op, u, p, o) ==
    LET q == [Idle EXCEPT !.op = op, !.pc = "findOption", !.userId = u,
                          !.pollId = p, !.pollOptionId = o]
    IN CopiesIn(q, reqs') > CopiesIn(q, reqs)

AnsweredAtOnce(op, u, p, o) ==
    /\ resp'.op = op /\ resp'.userId = u
    /\ resp'.pollId = p /\ resp'.pollOptionId = o
    /\ resp'.message \in {"Poll ID and Poll Option ID are required",
                          "Poll not found", "Cannot vote on unpublished poll",
                          "No vote found to update"}

Arrives(op, u, p, o) == TakenOn(op, u, p, o) \/ AnsweredAtOnce(op, u, p, o)

Rejected(q, message, statusCode) ==
    resp' = errorResponse(q.op, q.userId, q.pollId, q.pollOptionId,
                          message, statusCode)

\* ------------------------------------------------------------------ claims
\* C1: in every reachable state there is at most one Vote row for every
\* (userId, pollOptionId) pair, under any interleaving of addVote, updateVote
\* and removeVote at their store reads and writes.
C1_OneVotePerUserOption ==
    \A u \in UserIds, o \in OptionIds : CountRows(votes, VoteRows(u, o)) <= 1

\* C1 witness: a cast lost the check-then-write race; its create was refused
\* by the unique key while the row of the winner is in the store.
C1_Witness ==
    /\ resp.op = "addVote" /\ resp.status = 500
    /\ CountRows(votes, VoteRows(resp.userId, resp.pollOptionId)) = 1

\* C2: of the concurrent addVote requests for one (user, option) pair, at
\* most one returns 201: no cast returns 201 for a pair whose row was
\* already acknowledged with a 201.
C2_AtMostOneCastSucceeds ==
    [][(resp'.op = "addVote" /\ resp'.status = 201)
        => <<resp'.userId, resp'.pollOptionId>> \notin won]_vars

\* C2 witness: two casts for the same pair raced past the existence check;
\* one returned 201 and the other has just returned 500.
C2_Witness ==
    /\ resp.op = "addVote" /\ resp.status = 500
    /\ <<resp.userId, resp.pollOptionId>> \in won

\* C3 (as claimed): every Vote row addVote creates is committed while its
\* poll has isPublished = true.
C3_CreatedWhilePublished ==
    [][\A q \in BagToSet(reqs) :
         (q.op = "addVote" /\ q.pc = "create" /\ Stepped(q) /\ votes' # votes)
            => polls[q.pollId].isPublished]_vars

\* C4: addVote by a user who already holds a Vote for the option is rejected
\* with 400 "already voted" and leaves the Vote rows unchanged.
C4_DuplicateCastRejected ==
    [][\A q \in BagToSet(reqs) :
         (/\ q.op = "addVote" /\ q.pc = "findVote" /\ Stepped(q)
          /\ VoteRows(q.userId, q.pollOptionId) # {})
            => /\ Rejected(q, "You have already voted for this option", 400)
               /\ votes' = votes]_vars

\* C4 witness: a cast was rejected as a duplicate and the row is still there.
C4_Witness ==
    /\ resp.op = "addVote" /\ resp.status = 400
    /\ resp.message = "You have already voted for this option"
    /\ CountRows(votes, VoteRows(resp.userId, resp.pollOptionId)) = 1

\* C5: addVote on an existing poll that is not published fails with 403 and
\* creates no Vote row, whatever the option of the body is.
C5_UnpublishedCastFails ==
    [][\A u \in UserIds, p \in PollIds, o \in OptionIds :
         (Arrives("addVote", u, p, o) /\ polls[p].exists /\ ~polls[p].isPublished)
            => /\ resp' = errorResponse("addVote", u, p, o,
                              "Cannot vote on unpublished poll", 403)
               /\ votes' = votes]_vars

\* C5 witness: a cast on an unpublished poll for an option that does not
\* exist at all was answered 403.
C5_Witness ==
    /\ resp.op = "addVote" /\ resp.status = 403
    /\ PollFound(resp.pollId) /\ ~polls[resp.pollId].isPublished
    /\ OptionRows(resp.pollOptionId) = {}

\* C6 (as claimed): updateVote writes only while the poll is published.
C6_UpdatedWhilePublished ==
    [][\A q \in BagToSet(reqs) :
         (q.op = "updateVote" /\ q.pc = "update" /\ Stepped(q) /\ resp' = NoResp)
            => polls[q.pollId].isPublished]_vars

\* C7: every Vote row's option is an option of the Vote's own poll.
C7_NoCrossPollVote ==
    \A v \in BagToSet(votes) : OptionOfPollFound(v.pollOptionId, v.pollId)

\* C7 witness: with a Vote in the store, a cast naming an existing option of
\* another poll was refused.
C7_Witness ==
    /\ resp.op = "addVote" /\ resp.status = 400
    /\ resp.message = "Invalid poll option for this poll"
    /\ OptionRows(resp.pollOptionId) # {}
    /\ votes # EmptyBag

\* The option check of addVote is reached with a body of these values.
OptionChecked(q) == q.op = "addVote" /\ q.pc = "findOption" /\ Stepped(q)

C9_UpdateRejections ==
    [][/\ \A u \in UserIds, p \in PollIds, o \in OptionIds :
            (Arrives("updateVote", u, p, o) /\ VoteRows(u, o) = {})
               => /\ resp' = errorResponse("updateVote", u, p, o,
                                           "No vote found to update", 404)
                  /\ votes' = votes
       /\ \A q \in BagToSet(reqs) :
            (/\ q.op = "updateVote" /\ q.pc = "findOption" /\ Stepped(q)
             /\ ~OptionOfPollFound(q.pollOptionId, q.pollId))
               => /\ Rejected(q, "Invalid poll option for this poll", 400)
                  /\ votes' = votes]_vars

\* C9 witness: the user holds a Vote for the option, names another poll and
\* is answered 400.
C9_Witness ==
    /\ resp.op = "updateVote" /\ resp.status = 400
    /\ resp.message = "Invalid poll option for this poll"
    /\ VoteRows(resp.userId, resp.pollOptionId) # {}

\* C10 (as claimed): a user who holds a Vote for option A of a published
\* poll and none for option B of that poll can change to B: the updateVote
\* naming B is not turned down as "not found".
C10_ChangeMovesVote ==
    [][\A u \in UserIds, p \in PollIds, A \in OptionIds, B \in OptionIds :
         (/\ Arrives("updateVote", u, p, B)
          /\ A # B /\ polls[p].exists /\ polls[p].isPublished
          /\ OptionOfPollFound(A, p) /\ OptionOfPollFound(B, p)
          /\ VoteRows(u, A) # {} /\ VoteRows(u, B) = {})
            => resp'.status # 404]_vars

\* The write step of a vote mutation: request q leaves the position `at`
\* and goes on to its broadcast.
Wrote(q, op, at) ==
    /\ q.op = op /\ q.pc = at /\ Stepped(q)
    /\ CopiesIn([q EXCEPT !.pc = "broadcast"], reqs')
         > CopiesIn([q EXCEPT !.pc = "broadcast"], reqs)

\* The Vote row of request q.
RowOf(q) ==
    [userId |-> q.userId, pollId |-> q.pollId, pollOptionId |-> q.pollOptionId]

\* C11: a successful addVote for option O of poll P raises O's voteCount by
\* exactly 1 and P's totalVotes by exactly 1 and leaves the voteCount of
\* every other option unchanged; from the empty poll p1, u1 casting a gives
\* a: 1 (100%), b: 0 (0%), and u2 then casting b gives a: 1 (50%), b: 1 (50%).
C11_CastRaisesCountsByOne ==
    [][\A q \in BagToSet(reqs) :
         Wrote(q, "addVote", "create") =>
            LET p == q.pollId
                o == q.pollOptionId
                old == computeTally(p)
                new == computeTally(p)'
            IN /\ new.totalVotes = old.totalVotes + 1
               /\ new.voteCount[o] = old.voteCount[o] + 1
               /\ \A x \in OptionIds \ {o} : new.voteCount[x] = old.voteCount[x]
               /\ (votes = EmptyBag /\ p = "p1" /\ o = "a")
                     => new.percentage["a"] = 100 /\ new.percentage["b"] = 0
               /\ (old.totalVotes = 1 /\ old.voteCount["a"] = 1
                   /\ p = "p1" /\ o = "b")
                     => new.percentage["a"] = 50 /\ new.percentage["b"] = 50]_vars

\* C11 witness: u1 has cast a and u2 has cast b on p1, both answered 201,
\* and the tally of p1 is a: 1 (50%), b: 1 (50%), total 2.
C11_Witness ==
    /\ resp.op = "addVote" /\ resp.status = 201
    /\ resp.userId = "u2" /\ resp.pollOptionId = "b"
    /\ won = {<<"u1", "a">>, <<"u2", "b">>}
    /\ computeTally("p1").totalVotes = 2
    /\ computeTally("p1").voteCount["a"] = 1
    /\ computeTally("p1").voteCount["b"] = 1
    /\ computeTally("p1").percentage["a"] = 50
    /\ computeTally("p1").percentage["b"] = 50

\* A removeVote of user u for option o arrives and its first query runs.
RemoveArrives(u, o) ==
    \/ TakenOn("removeVote", u, Missing, o)
    \/ /\ resp'.op = "removeVote" /\ resp'.userId = u
       /\ resp'.pollOptionId = o /\ resp'.status = 404

\* C12: removeVote for a (user, option) pair with no Vote row is answered
\* 404 and changes nothing (so is a second removeVote after a successful
\* one); removeVote of an existing Vote deletes exactly that row and goes on
\* to its success response.
C12_RemoveDeletesOrNotFound ==
    [][/\ \A u \in UserIds, o \in OptionIds :
            (RemoveArrives(u, o) /\ VoteRows(u, o) = {})
               => /\ resp' = errorResponse("removeVote", u, Missing, o,
                                           "No vote found to remove", 404)
                  /\ votes' = votes
       /\ \A q \in BagToSet(reqs) :
            (/\ q.op = "removeVote" /\ q.pc = "delete" /\ Stepped(q)
             /\ VoteRows(q.userId, q.pollOptionId) # {})
               => /\ \A v \in BagToSet(votes) :
                        CopiesIn(v, votes') =
                           IF v.userId = q.userId
                              /\ v.pollOptionId = q.pollOptionId
                              THEN 0 ELSE CopiesIn(v, votes)
                  /\ BagToSet(votes') \subseteq BagToSet(votes)
                  /\ CopiesIn([q EXCEPT !.pc = "broadcast"], reqs')
                       > CopiesIn([q EXCEPT !.pc = "broadcast"], reqs)]_vars

\* C12 witness: a removeVote has succeeded; the row is gone and the user's
\* Vote for another option is still there.
C12_Witness ==
    /\ resp.op = "removeVote" /\ resp.status = 200
    /\ VoteRows(resp.userId, resp.pollOptionId) = {}
    /\ \E v \in BagToSet(votes) : v.userId = resp.userId

\* Request q sends its vote-update in this step.
Emits(q) == q.pc = "emit" /\ Stepped(q)

\* A vote mutation returns success in this step.
VoteSucceeds ==
    /\ resp'.op \in {"addVote", "updateVote", "removeVote"}
    /\ resp'.status \in {200, 201}
    /\ reqs' # reqs

C14_BroadcastAfterWrite ==
    [][/\ \A q \in BagToSet(reqs') :
            (q.pc = "broadcast" /\ CopiesIn(q, reqs') > CopiesIn(q, reqs)) =>
               /\ q.op = "addVote" =>
                     CopiesIn(RowOf(q), votes') = CopiesIn(RowOf(q), votes) + 1
               /\ q.op = "updateVote" =>
                     /\ VoteRows(q.userId, q.pollOptionId) # {}
                     /\ \E v \in BagToSet(votes') :
                           v.userId = q.userId /\ v.pollOptionId = q.pollOptionId
               /\ q.op = "removeVote" =>
                     /\ VoteRows(q.userId, q.pollOptionId) # {}
                     /\ \A v \in BagToSet(votes') :
                           ~(v.userId = q.userId
                             /\ v.pollOptionId = q.pollOptionId)
       /\ \A q \in BagToSet(reqs) :
            (q.pc \in {"create", "update", "delete"} /\ Stepped(q)
             /\ resp'.status = 500) =>
               /\ votes' = votes
               /\ BagCardinality(reqs') < BagCardinality(reqs)
       /\ \A q \in BagToSet(reqs') :
            (q.pc = "emit" /\ CopiesIn(q, reqs') > CopiesIn(q, reqs)) =>
               \E b \in BagToSet(reqs) : b.pc = "broadcast" /\ Stepped(b)]_vars

\* C14 witness: a removeVote is about to send its vote-update; its tally was
\* read after its delete and no longer counts the vote.
C14_Witness ==
    \E q \in BagToSet(reqs) :
        /\ q.op = "removeVote" /\ q.pc = "emit"
        /\ q.tally.voteCount[q.pollOptionId] = 0
        /\ VoteRows(q.userId, q.pollOptionId) = {}

\* C15: a socket whose latest join-poll, leave-poll or disconnect for poll P
\* is not a join-poll receives no vote-update of P, also when the broadcast
\* had read its tally before the leave-poll was processed.
C15_NoEventAfterLeave ==
    [][\A s \in SocketIds, p \in PollIds :
         (<<s, p>> \notin joined /\ <<s, p>> \notin joined')
            => \A q \in BagToSet(reqs) :
                  (Emits(q) /\ q.pollId = p) => inbox'[s] = inbox[s]]_vars

\* C15 witness: socket s1 has received a vote-update of p1 and its
\* leave-poll has just been processed while a broadcast for p1 holds its
\* tally and has yet to emit.
C15_Witness ==
    /\ event.name = "leave-poll" /\ event.socket = "s1" /\ event.pollId = "p1"
    /\ event.member
    /\ inbox["s1"].n = 1
    /\ "s1" \notin rooms["p1"]
    /\ \E q \in BagToSet(reqs) : q.pc = "emit" /\ q.pollId = "p1"

\* C16: a socket is in room poll-P exactly when it is connected and the
\* latest of its join-poll(P), leave-poll(P) and disconnect events is a
\* join-poll(P); a socket that is not connected is in no room.
C16_RoomIffJoined ==
    /\ \A s \in SocketIds, p \in PollIds :
          s \in rooms[p] <=> (<<s, p>> \in joined /\ sockets[s].state = "open")
    /\ \A s \in SocketIds :
          sockets[s].state # "open" => \A p \in PollIds : s \notin rooms[p]

\* C16 witness: socket s1 was in a room when it disconnected and is in no
\* room now, while socket s2 is still in the room of p1.
C16_Witness ==
    /\ event.name = "disconnect" /\ event.socket = "s1" /\ event.member
    /\ \A p \in PollIds : "s1" \notin rooms[p]
    /\ "s2" \in rooms["p1"]

\* C17: a join-poll(P) of a socket that is in poll-P and a leave-poll(P) of
\* a socket that is not in poll-P change no room; after a join-poll(P) the
\* socket is in poll-P, and a broadcast gives a member one event.
C17_JoinLeaveIdempotent ==
    [][/\ \A s \in SocketIds, p \in PollIds :
            /\ (event' = [socket |-> s, name |-> "join-poll", pollId |-> p,
                          message |-> "", member |-> TRUE] /\ s \in rooms[p])
                  => rooms' = rooms
            /\ (event' = [socket |-> s, name |-> "leave-poll", pollId |-> p,
                          message |-> "", member |-> FALSE] /\ s \notin rooms[p])
                  => rooms' = rooms
            /\ (event'.name = "join-poll" /\ event'.socket = s
                /\ event'.pollId = p /\ event' # event)
                  => s \in rooms'[p]
       /\ \A q \in BagToSet(reqs) :
            Emits(q) => \A s \in rooms[q.pollId] : inbox'[s].n = inbox[s].n + 1]_vars

\* C17 witness: socket s1 sent join-poll(p1) while it was in the room; it is
\* in the room and has received one vote-update of a cast answered 201.
C17_Witness ==
    /\ event = [socket |-> "s1", name |-> "join-poll", pollId |-> "p1",
                message |-> "", member |-> TRUE]
    /\ "s1" \in rooms["p1"]
    /\ inbox["s1"].n = 1
    /\ resp.status = 201

\* C18: a handshake with no token, with a token that does not verify, or
\* with a token of a user that is not in the store is refused with an
\* authentication error and leaves the socket closed; join-poll and
\* leave-poll are processed for open sockets only, so every socket in a
\* room passed the authentication and carries its principal.
C18_OnlyAuthenticatedSockets ==
    [][/\ \A s \in SocketIds :
            /\ (sockets[s].state = "closed" /\ sockets'[s].state # "closed")
                  => /\ sockets'[s].state = "auth"
                     /\ sockets'[s].decoded \in TokenUserIds
            /\ (sockets[s].state = "auth" /\ sockets'[s].state # "auth")
                  => IF sockets[s].decoded \in users
                        THEN /\ sockets'[s].state = "open"
                             /\ sockets'[s].userId = sockets[s].decoded
                        ELSE /\ sockets'[s] = NoSocket
                             /\ event'.name = "connect_error"
            /\ (event'.socket = s /\ event' # event
                /\ event'.name \in {"join-poll", "leave-poll"})
                  => sockets[s].state = "open"
            /\ \A p \in PollIds :
                  s \in rooms'[p] => /\ sockets'[s].state = "open"
                                     /\ sockets'[s].userId \in users']_vars

\* C18 witness: the handshake of s1 carried the token of a user that is not
\* in the store and was refused; s1 is closed and in no room, while s2,
\* which passed, is in a room.
C18_Witness ==
    /\ event = [socket |-> "s1", name |-> "connect_error", pollId |-> Missing,
                message |-> "Authentication error: User not found",
                member |-> FALSE]
    /\ sockets["s1"] = NoSocket
    /\ \A p \in PollIds : "s1" \notin rooms[p]
    /\ "s2" \in rooms["p1"] /\ sockets["s2"].userId = "u1"

\* The sum of the values of f over the set S.
RECURSIVE SumOver(_, _)
SumOver(f, S) ==
    IF S = {} THEN 0
    ELSE LET x == CHOOSE y \in S : TRUE IN f[x] + SumOver(f, S \ {x})

\* getPollStats has answered with a tally.
StatsAnswered == resp.op = "getPollStats" /\ resp.status = 200

\* The options of poll p.
OptionsOf(p) == {o \in OptionIds : OptionOfPollFound(o, p)}

\* C19 (as claimed): the percentages of a tally sum to at most 100, each
\* lies in 0..100, and all are 0 when totalVotes = 0.
C19_PercentagesAtMost100 ==
    StatsAnswered =>
       /\ SumOver(resp.data.percentage, OptionIds) <= 100
       /\ \A o \in OptionIds : resp.data.percentage[o] \in 0..100
       /\ resp.data.totalVotes = 0
             => \A o \in OptionIds : resp.data.percentage[o] = 0

\* C19 (amended): each percentage of a tally is
\* round(voteCount / totalVotes * 100) and lies in 0..100, all are 0 when
\* totalVotes = 0, and otherwise their sum differs from 100 by at most half
\* a point per option (so it can exceed 100).
C19_PercentagesNear100 ==
    StatsAnswered =>
       LET t == resp.data
           n == Cardinality(OptionsOf(resp.pollId))
           sum == SumOver(t.percentage, OptionIds)
       IN /\ \A o \in OptionIds :
                /\ t.percentage[o] \in 0..100
                /\ t.totalVotes > 0 =>
                      /\ 2 * t.totalVotes * t.percentage[o]
                            <= 200 * t.voteCount[o] + t.totalVotes
                      /\ 2 * t.totalVotes * (t.percentage[o] + 1)
                            > 200 * t.voteCount[o] + t.totalVotes
          /\ t.totalVotes = 0 => \A o \in OptionIds : t.percentage[o] = 0
          /\ t.totalVotes > 0 => 2 * sum <= 200 + n /\ 2 * sum >= 200 - n

\* C19 witness: getPollStats has answered a tally of seven votes over four
\* options (2, 2, 2, 1) whose percentages 29, 29, 29, 14 sum to 101.
C19_Witness ==
    /\ StatsAnswered
    /\ resp.data.totalVotes = 7
    /\ SumOver(resp.data.percentage, OptionIds) = 101

\* A tally whose total is the sum of its options' counts.
Consistent(t) == t.totalVotes = SumOver(t.voteCount, OptionIds)

HoldsOtherOption(u, p, o) ==
    \E v \in BagToSet(votes) :
        v.userId = u /\ v.pollId = p /\ v.pollOptionId # o

\* C23: nothing limits a user to one Vote per poll: an addVote of a user who
\* holds a Vote for another option of the same published poll passes the
\* existence check and creates its row, so one user holds Votes for two
\* options of the poll after two successful addVote requests.
C23_SecondOptionAccepted ==
    [][\A q \in BagToSet(reqs) :
         /\ (/\ q.op = "addVote" /\ q.pc = "findVote" /\ Stepped(q)
             /\ VoteRows(q.userId, q.pollOptionId) = {}
             /\ HoldsOtherOption(q.userId, q.pollId, q.pollOptionId))
               => CopiesIn([q EXCEPT !.pc = "create"], reqs')
                     > CopiesIn([q EXCEPT !.pc = "create"], reqs)
         /\ (/\ q.op = "addVote" /\ q.pc = "create" /\ Stepped(q)
             /\ VoteRows(q.userId, q.pollOptionId) = {}
             /\ ForeignKeysOk(q.userId, q.pollId, q.pollOptionId)
             /\ HoldsOtherOption(q.userId, q.pollId, q.pollOptionId))
               => /\ votes' = votes (+) SetToBag({RowOf(q)})
                  /\ Wrote(q, "addVote", "create")]_vars

\* C23 witness: u1 holds a Vote for a and a Vote for b of the published
\* poll p1, and both casts were answered 201.
C23_Witness ==
    /\ resp.op = "addVote" /\ resp.status = 201
    /\ {<<"u1", "a">>, <<"u1", "b">>} \subseteq won
    /\ polls["p1"].isPublished
    /\ CopiesIn([userId |-> "u1", pollId |-> "p1", pollOptionId |-> "a"], votes) = 1
    /\ CopiesIn([userId |-> "u1", pollId |-> "p1", pollOptionId |-> "b"], votes) = 1

C28_OneRemoveWins ==
    [][\A q \in BagToSet(reqs) :
         (q.op = "removeVote" /\ q.pc = "delete" /\ Stepped(q)) =>
            IF VoteRows(q.userId, q.pollOptionId) # {}
               THEN /\ CopiesIn(RowOf(q), votes) = 1
                    /\ CopiesIn(RowOf(q), votes') = 0
                    /\ Wrote(q, "removeVote", "delete")
                    /\ CopiesIn(q, reqs) = 2 =>
                          /\ CopiesIn(q, reqs') = 1
                          /\ VoteRows(q.userId, q.pollOptionId)' = {}
               ELSE /\ Rejected(q, "Internal server error", 500)
                    /\ votes' = votes
                    /\ inbox' = inbox
                    /\ BagCardinality(reqs') < BagCardinality(reqs)
                    /\ \A b \in BagToSet(reqs') : b.pc \in {"broadcast", "emit"}
                          => CopiesIn(b, reqs') = CopiesIn(b, reqs)]_vars

\* C28 witness: two removeVote requests of u1 for option a raced; the delete
\* of one was refused with 500 while the other, which deleted the row, is
\* on its way to its vote-update.
C28_Witness ==
    /\ resp.op = "removeVote" /\ resp.status = 500
    /\ resp.userId = "u1" /\ resp.pollOptionId = "a"
    /\ VoteRows("u1", "a") = {}
    /\ \E q \in BagToSet(reqs) :
          /\ q.op = "removeVote" /\ q.pc \in {"broadcast", "emit"}
          /\ q.userId = "u1" /\ q.pollOptionId = "a"

\* C22 (as claimed): when the concurrent vote mutations and their broadcasts
\* have completed, the last vote-update a socket in the room has received
\* carries the tally of the store.
C22_LastEventIsFinalTally ==
    reqs = EmptyBag =>
       \A p \in PollIds : \A s \in rooms[p] :
          (inbox[s].n > 0 /\ inbox[s].last.pollId = p)
             => inbox[s].last = computeTally(p)

\* C30: an event of poll P is delivered to the sockets that are in room
\* poll-P when it is emitted and to no other: a socket that is in other
\* rooms only, or in no room, receives no event with pollId P, and the
\* event a socket receives carries the id of a poll whose room it is in.
C30_OnlyRoomMembersReceive ==
    [][/\ \A q \in BagToSet(reqs) :
            Emits(q) =>
               /\ q.tally.pollId = q.pollId
               /\ \A s \in SocketIds \ rooms[q.pollId] : inbox'[s] = inbox[s]
       /\ \A s \in SocketIds :
            inbox'[s] # inbox[s] =>
               \/ inbox'[s] = NoEvent /\ sockets'[s].state = "closed"
               \/ /\ inbox'[s].last.pollId \in PollIds
                  /\ s \in rooms[inbox'[s].last.pollId]]_vars

\* C30 witness: the vote-update of a cast on p1 has reached s2, a member of
\* room poll-p1, and not s1, which is in room poll-p2 only.
C30_Witness ==
    /\ resp.op = "addVote" /\ resp.status = 201 /\ resp.pollId = "p1"
    /\ "s1" \in rooms["p2"] /\ "s1" \notin rooms["p1"]
    /\ "s2" \in rooms["p1"]
    /\ inbox["s2"].n = 1 /\ inbox["s2"].last.pollId = "p1"
    /\ inbox["s1"] = NoEvent

\* The operations on a poll that are its author's.
PollOps == {"updatePoll", "togglePollPublish", "deletePoll"}

\* The poll p is edited, published, unpublished or deleted in this step.
PollChanges(p) ==
    /\ PollFound(p)
    /\ \/ polls'[p].question # polls[p].question
       \/ polls'[p].isPublished # polls[p].isPublished
       \/ ~polls'[p].exists

\* Every change of a poll is made by a step of a request of its author.
ChangedByAuthor ==
    \A p \in PollIds :
        PollChanges(p) =>
           \E q \in BagToSet(reqs) : Stepped(q) /\ q.userId = polls[p].authorId

\* updatePoll, togglePollPublish and deletePoll of a user who is not the
\* author of the (existing) poll are answered 403 and change nothing in the
\* store; no such request is taken on.
OthersAreRefused ==
    /\ (/\ resp' # resp /\ resp'.op \in PollOps
        /\ PollFound(resp'.pollId)
        /\ polls[resp'.pollId].authorId # resp'.userId)
          => /\ resp'.status = 403
             /\ storeVars' = storeVars
             /\ reqs' = reqs
    /\ \A q \in BagToSet(reqs') :
          (q.op \in PollOps /\ CopiesIn(q, reqs') > CopiesIn(q, reqs))
             => PollFound(q.pollId) /\ polls[q.pollId].authorId = q.userId

\* C25 (as claimed): a poll's question and isPublished flag change, and a
\* poll is deleted, only through requests made by the poll's author;
\* updatePoll, togglePollPublish and deletePoll of any other user return 403
\* and leave the poll, its options and its votes unchanged.
C25_OnlyAuthorChangesPoll == [][ChangedByAuthor /\ OthersAreRefused]_vars

\* C24 (as claimed): when togglePollPublish or updatePoll of the author
\* returns success for poll P, every socket in room poll-P receives a
\* poll-update event for P.
C24_PollUpdateDelivered ==
    [][(/\ resp' # resp
        /\ resp'.op \in {"togglePollPublish", "updatePoll"}
        /\ resp'.status = 200)
          => \A s \in rooms[resp'.pollId] :
                inbox'[s].pollUpdates = inbox[s].pollUpdates + 1]_vars

\* The Vote rows of poll p change in this step.
VotesChange(p) ==
    \E v \in BagToSet(votes) \cup BagToSet(votes') :
        v.pollId = p /\ CopiesIn(v, votes') # CopiesIn(v, votes)

\* C29 (as claimed): every change of the Vote rows of a poll P that goes on
\* existing, also by the cascade of deleteUser, is followed by a vote-update
\* for P: after the step of the change a broadcast for P is under way that
\* has yet to read its tally.
C29_ChangeIsBroadcast ==
    [][\A p \in PollIds :
         (VotesChange(p) /\ polls'[p].exists)
            => \E q \in BagToSet(reqs') : q.pc = "broadcast" /\ q.pollId = p]_vars

\* C21: once the write of a vote mutation has committed, every step of its
\* broadcast leaves the Vote rows alone and ends in the tally being held for
\* the emit or in the success response of the request: when the tally query
\* throws, when the poll is gone, when the room has no member and when the
\* delivery to one member fails; in the last case every other member of the
\* room still receives the event.
C21_BroadcastNeverFailsRequest ==
    [][\A q \in BagToSet(reqs) :
         (q.pc \in {"broadcast", "emit"} /\ Stepped(q)) =>
            /\ q.op \in VoteOps
            /\ votes' = votes
            /\ \/ /\ q.pc = "broadcast" /\ PollFound(q.pollId)
                  /\ CopiesIn([q EXCEPT !.pc = "emit",
                                        !.tally = computeTally(q.pollId)], reqs')
                       > CopiesIn([q EXCEPT !.pc = "emit",
                                        !.tally = computeTally(q.pollId)], reqs)
                  /\ inbox' = inbox
               \/ /\ resp'.op = q.op /\ resp'.userId = q.userId
                  /\ resp'.pollOptionId = q.pollOptionId
                  /\ resp'.status = IF q.op = "addVote" THEN 201 ELSE 200
                  /\ BagCardinality(reqs') = BagCardinality(reqs) - 1
            /\ q.pc = "broadcast" => inbox' = inbox
            /\ q.pc = "emit" =>
                  \A s \in rooms[q.pollId], t \in rooms[q.pollId] :
                     (s # t /\ inbox'[s] = inbox[s])
                        => /\ inbox'[t].n = inbox[t].n + 1
                           /\ inbox'[t].last = q.tally]_vars

\* C21 witness: with both sockets in the room of p1, the tally query of the
\* broadcast of a cast threw; the error was logged, no socket has received
\* an event, the cast was answered 201 and its Vote row is in the store.
C21_Witness ==
    /\ event.name = "console.error" /\ event.pollId = "p1" /\ event.member
    /\ rooms["p1"] = SocketIds
    /\ \A s \in SocketIds : inbox[s] = NoEvent
    /\ resp.op = "addVote" /\ resp.status = 201
    /\ reqs = EmptyBag
    /\ VoteRows(resp.userId, resp.pollOptionId) # {}

\* A vote mutation is answered with an error in this step.
ErrorAnswered ==
    /\ resp' # resp
    /\ resp'.op \in VoteOps
    /\ resp'.status \in {400, 403, 404, 500}

\* C26: every addVote, updateVote or removeVote that ends in an error
\* response (400, 403, 404 or 500, also when the store fails or the cast
\* lost the race for the unique key) is answered from a position before its
\* write has committed, in a step that changes no Vote row, delivers no
\* event and starts no broadcast.
C26_ErrorChangesNothing ==
    [][ErrorAnswered =>
          /\ votes' = votes
          /\ inbox' = inbox
          /\ \A q \in BagToSet(reqs) :
                Stepped(q) => q.pc \notin {"broadcast", "emit"}
          /\ \A b \in BagToSet(reqs') :
                b.pc \in {"broadcast", "emit"}
                   => CopiesIn(b, reqs') = CopiesIn(b, reqs)]_vars

\* C26 witness: with a socket in the room of p1 that has received one
\* vote-update, a second cast was answered 500 (its create was refused by
\* the unique key, or the store failed under it); the row of the first cast
\* is the only Vote and no event was added.
C26_Witness ==
    /\ resp.op = "addVote" /\ resp.status = 500
    /\ reqs = EmptyBag
    /\ "s1" \in rooms["p1"]
    /\ inbox["s1"].n = 1 /\ inbox["s1"].last.totalVotes = 1
    /\ votes = SetToBag({[userId |-> "u1", pollId |-> "p1", pollOptionId |-> "a"]})

====
